---------------------------- MODULE Spec2Model ----------------------------
(* Model of the Monster M4SK eye firmware add-ons:                          *)
(*   src/M4_Eyes/reload.cpp : texture cache and reloadEyeConfig            *)
(*   src/M4_Eyes/user.cpp   : style cycling, serial commands, backup regs  *)
EXTENDS Integers, Sequences, FiniteSets, TLC

(***************************************************************************)
(* Program constants                                                       *)
(***************************************************************************)
MAX_CACHED_TEXTURES == 8
FILENAME_SIZE == 48
DRAIN_TIMEOUT_MS == 100
NUM_EYES == 2

(***************************************************************************)
(* Bounds of the model                                                     *)
(***************************************************************************)
\* successful decodes (flash allocations) the decoder grants in one run
MaxDecodes == 2
\* granularity with which the millisecond clock is sampled in the drain loop
TickMs == 50

Eyes == 0 .. (NUM_EYES - 1)
Slots == {"iris", "sclera"}

Min(a, b) == IF a < b THEN a ELSE b

(***************************************************************************)
(* C strings: a char* is NULL or points to a sequence of characters.       *)
(***************************************************************************)
NullStr == [null |-> TRUE, s |-> <<>>]
Str(s) == [null |-> FALSE, s |-> s]

ShortA == Str(<<"a", ".", "b", "m", "p">>)
ShortB == Str(<<"b", ".", "b", "m", "p">>)
\* a file name of FILENAME_SIZE characters: one more than the cache can store
LongL == Str([i \in 1 .. FILENAME_SIZE |-> "x"])
BootName(k) == Str(<<"t", k>>)

TexNames == {ShortA, ShortB}
CacheNames == {ShortA, ShortB, LongL}

(***************************************************************************)
(* Pointers to pixel data: NULL, a flash allocation made by the decoder,   *)
(* or the address of a unit's own fallback color field.                    *)
(***************************************************************************)
NullPtr == [kind |-> "null", n |-> 0, slot |-> "-"]
FlashPtr(n) == [kind |-> "flash", n |-> n, slot |-> "-"]
ColorPtr(e, slot) == [kind |-> "color", n |-> e, slot |-> slot]
ColorPtrs == {ColorPtr(e, sl) : e \in Eyes, sl \in Slots}

\* image size stored in a texture file (fixed by the file's content)
DimsOf(f) == IF Len(f.s) >= FILENAME_SIZE
             THEN [w |-> 256, h |-> 32]
             ELSE [w |-> 128, h |-> 64]

FailCodes == {"IMAGE_ERR_FILE_NOT_FOUND", "IMAGE_ERR_FORMAT"}
DecodeOutcomes == {"IMAGE_SUCCESS"} \cup FailCodes

(***************************************************************************)
(* Texture cache (reload.cpp lines 16-89)                                  *)
(***************************************************************************)
\* strncpy(dst, src, sizeof(dst) - 1); dst[sizeof(dst) - 1] = '\0'
Strncpy(s) == SubSeq(s, 1, Min(Len(s), FILENAME_SIZE - 1))

\* index of the first entry whose stored name equals filename, 0 for NULL
findCachedTexture(cache, filename) ==
  LET hits == {i \in 1 .. Len(cache) : cache[i].filename = filename.s}
  IN IF hits = {} THEN 0 ELSE CHOOSE i \in hits : \A j \in hits : i <= j

\* mutant: a full cache evicts its oldest entry
addCachedTextureMut(cache, filename, data, width, height) ==
  Append(IF Len(cache) >= MAX_CACHED_TEXTURES THEN Tail(cache) ELSE cache,
         [filename |-> Strncpy(filename.s), data |-> data,
          width |-> width, height |-> height])
addCachedTexture(cache, filename, data, width, height) ==
  IF Len(cache) >= MAX_CACHED_TEXTURES
  THEN cache
  ELSE Append(cache, [filename |-> Strncpy(filename.s), data |-> data,
                      width |-> width, height |-> height])

\* loadTexture(): the external decoder.  outcome is its status; on success
\* it returns a fresh flash allocation (number alloc) of the file's size.
loadTexture(filename, outcome, alloc) ==
  [status |-> outcome,
   data   |-> IF outcome = "IMAGE_SUCCESS" THEN FlashPtr(alloc) ELSE NullPtr,
   width  |-> IF outcome = "IMAGE_SUCCESS" THEN DimsOf(filename).w ELSE 0,
   height |-> IF outcome = "IMAGE_SUCCESS" THEN DimsOf(filename).h ELSE 0]

\* Result of loadTextureWithCache: the out-parameters, the status, the cache
\* afterwards, and whether the decoder was invoked.
\* mutant: the NULL check is missing, the call goes on to the decoder
loadTextureWithCacheMut(cache, filename, fallbackColor, outcome, alloc) ==
  LET r == loadTexture(filename, outcome, alloc)
  IN IF r.status = "IMAGE_SUCCESS"
     THEN [cache |-> addCachedTexture(cache, filename, r.data, r.width, r.height),
           data |-> r.data, width |-> r.width, height |-> r.height,
           status |-> r.status, decoded |-> TRUE]
     ELSE [cache |-> cache, data |-> fallbackColor, width |-> 1, height |-> 1,
           status |-> r.status, decoded |-> TRUE]
loadTextureWithCache(cache, filename, fallbackColor, outcome, alloc) ==
  IF filename.null
  THEN [cache |-> cache, data |-> fallbackColor, width |-> 1, height |-> 1,
        status |-> "IMAGE_ERR_FILE_NOT_FOUND", decoded |-> FALSE]
  ELSE LET cached == findCachedTexture(cache, filename)
       IN IF cached # 0
          THEN [cache |-> cache, data |-> cache[cached].data,
                width |-> cache[cached].width, height |-> cache[cached].height,
                status |-> "IMAGE_SUCCESS", decoded |-> FALSE]
          ELSE LET r == loadTexture(filename, outcome, alloc)
               IN IF r.status = "IMAGE_SUCCESS"
                  THEN [cache |-> addCachedTexture(cache, filename, r.data,
                                                   r.width, r.height),
                        data |-> r.data, width |-> r.width, height |-> r.height,
                        status |-> r.status, decoded |-> TRUE]
                  ELSE [cache |-> cache, data |-> fallbackColor,
                        width |-> 1, height |-> 1,
                        status |-> r.status, decoded |-> TRUE]


(***************************************************************************)
(* user.cpp: text, the style table and the backup registers                *)
(***************************************************************************)
\* C strings are sequences of one-character strings ("TAB", "CR" and "LF"
\* stand for the control characters); the terminating NUL is the end of the
\* sequence
\* a 32-bit register value is its upper and its lower 16 bits
Reg(hi, lo) == [hi |-> hi, lo |-> lo]
\* 0xC7C10000
CYCLE_MAGIC_MASK == Reg(51137, 0)
CYCLE_MS == 120000
SERIAL_BUF_SIZE == 64

\* the clock of the command interface advances in steps of CycleTickMs, at
\* most MaxTicks times after a start
CycleTickMs == 60000
MaxTicks == 3

UpperCase == <<"A", "B", "C", "D", "E", "F", "G", "H", "I", "J", "K", "L", "M", "N", "O", "P", "Q", "R", "S", "T", "U", "V", "W", "X", "Y", "Z">>
LowerCase == <<"a", "b", "c", "d", "e", "f", "g", "h", "i", "j", "k", "l", "m", "n", "o", "p", "q", "r", "s", "t", "u", "v", "w", "x", "y", "z">>

\* tolower()
Lower(c) ==
  IF \E i \in DOMAIN UpperCase : UpperCase[i] = c
  THEN LowerCase[CHOOSE i \in DOMAIN UpperCase : UpperCase[i] = c]
  ELSE c

LowerSeq(s) == [i \in 1 .. Len(s) |-> Lower(s[i])]
Take(s, n) == SubSeq(s, 1, Min(Len(s), n))
Drop(s, n) == SubSeq(s, n + 1, Len(s))

\* 0 when the strings are equal ignoring case, as the C functions
strcasecmp(a, b) == IF LowerSeq(a) = LowerSeq(b) THEN 0 ELSE 1
strncasecmp(a, b, n) == strcasecmp(Take(a, n), Take(b, n))

styleTable == <<
  [name |-> <<"h", "a", "z", "e", "l">>,
   configPath |-> "hazel/config.eye"],
  [name |-> <<"a", "n", "i", "m", "e">>,
   configPath |-> "anime/config.eye"],
  [name |-> <<"b", "i", "g", "_", "b", "l", "u", "e">>,
   configPath |-> "big_blue/config.eye"],
  [name |-> <<"d", "e", "m", "o", "n">>,
   configPath |-> "demon/config.eye"],
  [name |-> <<"d", "o", "o", "m", "_", "r", "e", "d">>,
   configPath |-> "doom-red/config.eye"],
  [name |-> <<"d", "o", "o", "m", "_", "s", "p", "i", "r", "a", "l">>,
   configPath |-> "doom-spiral/config.eye"],
  [name |-> <<"f", "i", "s", "h">>,
   configPath |-> "fish_eyes/config.eye"],
  [name |-> <<"f", "i", "z", "z", "g", "i", "g">>,
   configPath |-> "fizzgig/config.eye"],
  [name |-> <<"h", "y", "p", "n", "o", "_", "r", "e", "d">>,
   configPath |-> "hypno_red/config.eye"],
  [name |-> <<"r", "e", "f", "l", "e", "c", "t", "i", "o", "n">>,
   configPath |-> "reflection/config.eye"],
  [name |-> <<"s", "k", "u", "l", "l">>,
   configPath |-> "skull/config.eye"],
  [name |-> <<"s", "n", "a", "k", "e">>,
   configPath |-> "snake_green/config.eye"],
  [name |-> <<"s", "p", "i", "k", "e", "s">>,
   configPath |-> "spikes/config.eye"],
  [name |-> <<"t", "o", "o", "n", "s", "t", "r", "i", "p", "e">>,
   configPath |-> "toonstripe/config.eye"]
>>
NUM_STYLES == Len(styleTable)
Style(i) == styleTable[i + 1]

\* the literals processCommand compares against
LitMood == <<"M", "O", "O", "D", ":">>
LitList == <<"l", "i", "s", "t">>
LitNext == <<"n", "e", "x", "t">>
LitAutocycle == <<"A", "U", "T", "O", "C", "Y", "C", "L", "E", ":">>
LitOn == <<"o", "n">>
LitOff == <<"o", "f", "f">>
LitStatus == <<"S", "T", "A", "T", "U", "S">>

\* v & 0xFFFF0000 and v & 0xFF of a 32-bit register value
High16(v) == Reg(v.hi, 0)
Low8(v) == v.lo % 256
\* CYCLE_MAGIC_MASK | b for an 8-bit b: the lower half of the mask is 0
Tagged(b) == Reg(CYCLE_MAGIC_MASK.hi, b)

\* the values of cycleIndex and cycleEnabled after loadCycleState
loadCycleState(regs) ==
  [cycleIndex |-> IF High16(regs[0]) = CYCLE_MAGIC_MASK
                  THEN IF Low8(regs[0]) >= NUM_STYLES THEN 0 ELSE Low8(regs[0])
                  ELSE 0,
   cycleEnabled |-> IF High16(regs[1]) = CYCLE_MAGIC_MASK
                    THEN Low8(regs[1])
                    ELSE 1]

\* the register values after saveCycleState
saveCycleState(index, enabled) ==
  [r \in 0 .. 1 |-> Tagged(IF r = 0 THEN index ELSE enabled)]

\* a Serial.printf / Serial.println call: format and arguments
Line(fmt, args) == [fmt |-> fmt, args |-> args]
OnOff(enabled) == IF enabled # 0 THEN "on" ELSE "off"

\* mutant: the record is saved before the index is set
rebootToStyleMut(m, idx) ==
  LET i == (idx % 256) % NUM_STYLES
  IN [m EXCEPT !.cycleIndex = i,
               !.BKUP = saveCycleState(m.cycleIndex, m.cycleEnabled),
               !.out = Append(m.out, Line("STYLE:REBOOTING:%s\n", <<Style(i).name>>)),
               !.reset = TRUE]
\* rebootToStyle: m is the machine state the command works on, with the
\* lines written so far and whether NVIC_SystemReset has been reached
rebootToStyle(m, idx) ==
  LET i == (idx % 256) % NUM_STYLES
  IN [m EXCEPT !.cycleIndex = i,
               !.BKUP = saveCycleState(i, m.cycleEnabled),
               !.out = Append(m.out, Line("STYLE:REBOOTING:%s\n", <<Style(i).name>>)),
               !.reset = TRUE]

\* while (*cmd == ' ' || *cmd == '\t') cmd++
RECURSIVE SkipBlanks(_)
SkipBlanks(s) ==
  IF s # <<>> /\ Head(s) \in {" ", "TAB"} THEN SkipBlanks(Tail(s)) ELSE s

StyleMatches(name) ==
  {i \in 0 .. (NUM_STYLES - 1) : strcasecmp(name, Style(i).name) = 0}

\* mutant: the loop over the table starts at the second entry
ListLinesMut(m) ==
  <<Line("STYLE:LIST", <<>>)>>
  \o [k \in 1 .. NUM_STYLES - 1 |->
        Line("  %s -> %s%s\n",
             <<Style(k).name, Style(k).configPath,
               IF k = m.cycleIndex THEN " [current]" ELSE "">>)]
  \o <<Line("STYLE:CURRENT:%s\n", <<Style(m.cycleIndex).name>>),
       Line("AUTOCYCLE:%s\n", <<OnOff(m.cycleEnabled)>>)>>
ListLines(m) ==
  <<Line("STYLE:LIST", <<>>)>>
  \o [k \in 1 .. NUM_STYLES |->
        Line("  %s -> %s%s\n",
             <<Style(k - 1).name, Style(k - 1).configPath,
               IF k - 1 = m.cycleIndex THEN " [current]" ELSE "">>)]
  \o <<Line("STYLE:CURRENT:%s\n", <<Style(m.cycleIndex).name>>),
       Line("AUTOCYCLE:%s\n", <<OnOff(m.cycleEnabled)>>)>>

StatusLine(m) ==
  Line("STATUS:style=%s,index=%d/%d,autocycle=%s,frames=%lu,freeRAM=%lu\n",
       <<Style(m.cycleIndex).name, m.cycleIndex, NUM_STYLES,
         OnOff(m.cycleEnabled), "frames", "availableRAM">>)

\* mutant: a name the table does not hold restarts with the index the
\* lookup loop ended on
MoodCommandMut(m, name) ==
  IF strcasecmp(name, LitList) = 0
  THEN [m EXCEPT !.out = m.out \o ListLines(m)]
  ELSE IF strcasecmp(name, LitNext) = 0
  THEN rebootToStyle(m, m.cycleIndex + 1)
  ELSE IF StyleMatches(name) # {}
  THEN rebootToStyle(m, CHOOSE i \in StyleMatches(name) :
                          \A j \in StyleMatches(name) : i <= j)
  ELSE rebootToStyle(m, NUM_STYLES)
MoodCommand(m, name) ==
  IF strcasecmp(name, LitList) = 0
  THEN [m EXCEPT !.out = m.out \o ListLines(m)]
  ELSE IF strcasecmp(name, LitNext) = 0
  THEN rebootToStyle(m, m.cycleIndex + 1)
  ELSE IF StyleMatches(name) # {}
  THEN rebootToStyle(m, CHOOSE i \in StyleMatches(name) :
                          \A j \in StyleMatches(name) : i <= j)
  ELSE [m EXCEPT !.out = Append(m.out, Line("UNKNOWN:STYLE:%s\n", <<name>>))]

AutocycleCommand(m, val, millis) ==
  IF strcasecmp(val, LitOn) = 0
  THEN [m EXCEPT !.cycleEnabled = 1,
                 !.BKUP = saveCycleState(m.cycleIndex, 1),
                 !.lastCycleMs = millis,
                 !.out = Append(m.out, Line("AUTOCYCLE:on", <<>>))]
  ELSE IF strcasecmp(val, LitOff) = 0
  THEN [m EXCEPT !.cycleEnabled = 0,
                 !.BKUP = saveCycleState(m.cycleIndex, 0),
                 !.out = Append(m.out, Line("AUTOCYCLE:off", <<>>))]
  ELSE m

processCommand(m, buf, millis) ==
  LET cmd == SkipBlanks(buf)
  IN IF strncasecmp(cmd, LitMood, 5) = 0
     THEN MoodCommand(m, Drop(cmd, 5))
     ELSE IF strncasecmp(cmd, LitAutocycle, 9) = 0
     THEN AutocycleCommand(m, Drop(cmd, 9), millis)
     ELSE IF strncasecmp(cmd, LitStatus, 6) = 0
     THEN [m EXCEPT !.out = Append(m.out, StatusLine(m))]
     ELSE IF cmd # <<>>
     THEN [m EXCEPT !.out = Append(m.out, Line("UNKNOWN:CMD:%s\n", <<cmd>>))]
     ELSE m

\* lines a host sends
LineAutoOn == <<"A", "U", "T", "O", "C", "Y", "C", "L", "E", ":", "o", "n">>
LineAutoOffMixed == <<"a", "u", "t", "o", "c", "y", "c", "l", "e", ":", "O", "F", "F">>
LineAutoJoined == <<"A", "U", "T", "O", "C", "Y", "C", "L", "E", "o", "n">>
LineAutoJoinedOff == <<"A", "U", "T", "O", "C", "Y", "C", "L", "E", "o", "f", "f">>
LineAutoOther == <<"A", "U", "T", "O", "C", "Y", "C", "L", "E", ":", "m", "a", "y", "b", "e">>
LineList == <<"M", "O", "O", "D", ":", "l", "i", "s", "t">>
LineNext == <<"m", "o", "o", "d", ":", "N", "E", "X", "T">>
LineDemon == <<"M", "o", "o", "d", ":", "D", "e", "m", "o", "n">>
LineSkull == <<"M", "O", "O", "D", ":", "s", "k", "u", "l", "l">>
LineNoStyle == <<"M", "O", "O", "D", ":", "x", "y", "z">>
LineStatus == <<"S", "T", "A", "T", "U", "S">>
LineStatusMore == <<"S", "T", "A", "T", "U", "S", "x">>
LineHello == <<"h", "e", "l", "l", "o">>
LineIndented == <<" ", "TAB", "s", "t", "a", "t", "u", "s">>
LineBlank == <<" ", " ">>
LineLong ==
  [i \in 1 .. SERIAL_BUF_SIZE + 2 |-> IF i = SERIAL_BUF_SIZE + 2 THEN "q" ELSE "z"]
UserLines ==
  {LineAutoOn,
   LineAutoOffMixed,
   LineAutoJoined,
   LineAutoJoinedOff,
   LineAutoOther,
   LineList,
   LineNext,
   LineDemon,
   LineSkull,
   LineNoStyle,
   LineStatus,
   LineStatusMore,
   LineHello,
   LineIndented,
   LineBlank,
   LineLong}
Terminators == {<<"LF">>, <<"CR", "LF">>}

(***************************************************************************)
(* State                                                                   *)
(***************************************************************************)
VARIABLES
  textureCache,         \* textureCache[0 .. numCached-1], as a sequence
  decodes,              \* flash allocations made by the decoder so far
  lastLoad,             \* arguments and results of the last direct cache load
  inserted,             \* history: every insert the cache accepted
  pc,                   \* position inside reloadEyeConfig, "idle" outside it
  eIdx,                 \* loop variable e of the drain and texture loops
  elapsed,              \* millis() - timeout in the drain loop
  dma_busy,             \* eye[e].dma_busy
  geometry,             \* the seven protected geometry globals
  params,               \* the per-eye and global fields step 4 resets
  eye,                  \* eye[e].iris / eye[e].sclera texture fields
  render,               \* eye[e].colNum, colIdx, column_ready, eyeX, eyeY
  upperEyelidFilename,
  lowerEyelidFilename,
  decodeCalls,          \* loadTexture calls of the current reload, per slot and name
  loaded,               \* what loadConfig wrote in the current reload, and whether
                        \* the reload began with params away from the defaults
  BKUP,                 \* RTC->MODE0.BKUP[0 .. 1].reg
  cycleIndex,
  cycleEnabled,
  lastCycleMs,
  serialBuf,            \* serialBuf[0 .. serialIdx-1]
  now,                  \* millis()
  upc,                  \* "reset", "setup", "loop" (between user_loop calls), "read"
  rx,                   \* bytes Serial.available() reports
  out,                  \* lines written to Serial by the last step that wrote any
  configPath,           \* what getCycleConfigPath returned since the last reset
  setupMs,              \* millis() when user_setup ran, since the last reset
  lastCmd,              \* the processCommand call of the current user_loop call
  heap                  \* malloc's view of the file name strings

cacheVars == <<textureCache, decodes, lastLoad, inserted>>
reloadVars == <<pc, eIdx, elapsed, dma_busy, geometry, params, eye, render,
                upperEyelidFilename, lowerEyelidFilename, decodeCalls, loaded,
                heap>>
userVars == <<BKUP, cycleIndex, cycleEnabled, lastCycleMs, serialBuf, now, upc,
              rx, out, configPath, setupMs, lastCmd>>
vars == <<cacheVars, reloadVars, userVars>>

serialIdx == Len(serialBuf)

numCached == Len(textureCache)

\* the next flash allocation the decoder hands out
NextAlloc == MAX_CACHED_TEXTURES + 1 + decodes

\* the decoder can only succeed while flash is left
OutcomeAllowed(outcome) == outcome = "IMAGE_SUCCESS" => decodes < MaxDecodes

(***************************************************************************)
(* Initial states                                                          *)
(***************************************************************************)
\* a cache left by earlier mood switches: one entry short of full
BootCache ==
  [k \in 1 .. (MAX_CACHED_TEXTURES - 1) |->
     [filename |-> BootName(k).s, data |-> FlashPtr(k),
      width |-> 16, height |-> 16]]

BootGeometry ==
  [eyeRadius |-> 125, eyeDiameter |-> 250, irisRadius |-> 60,
   slitPupilRadius |-> 0, mapRadius |-> 240, mapDiameter |-> 480,
   coverage |-> 50]
\* geometry a configuration file may ask for
BigGeometry ==
  [eyeRadius |-> 100, eyeDiameter |-> 200, irisRadius |-> 40,
   slitPupilRadius |-> 30, mapRadius |-> 200, mapDiameter |-> 400,
   coverage |-> 50]
WideGeometry ==
  [eyeRadius |-> 125, eyeDiameter |-> 250, irisRadius |-> 60,
   slitPupilRadius |-> 0, mapRadius |-> 240, mapDiameter |-> 480,
   coverage |-> 100]
GeomValues == {BigGeometry, WideGeometry}

NoLoad ==
  [called |-> FALSE, filename |-> NullStr, fallback |-> NullPtr,
   data |-> NullPtr, width |-> 0, height |-> 0, status |-> "IMAGE_SUCCESS",
   decoded |-> FALSE, before |-> <<>>]

NoCalls == [sl \in Slots |-> [f \in TexNames |-> 0]]

\* step 4: the defaults of the per-eye fields and of the globals.  Colors are
\* 16-bit values; spin, blinkFactor, trackFactor, irisMin and irisRange are
\* floats, written in hundredths
EyeDefaults(e) ==
  [pupilColor |-> 0, backColor |-> 65535,
   irisColor |-> 65281,
   irisStartAngle |-> IF e % 2 = 1 THEN 512 ELSE 0,
   irisAngle |-> IF e % 2 = 1 THEN 512 ELSE 0,
   irisMirror |-> 0, irisSpin |-> 0, irisISpin |-> 0,
   scleraColor |-> 65535,
   scleraStartAngle |-> IF e % 2 = 1 THEN 512 ELSE 0,
   scleraAngle |-> IF e % 2 = 1 THEN 512 ELSE 0,
   scleraMirror |-> 0, scleraSpin |-> 0, scleraISpin |-> 0,
   rotation |-> 3, blinkState |-> "NOBLINK", blinkFactor |-> 0]
GlobalDefaults ==
  [tracking |-> TRUE, trackFactor |-> 50, gazeMax |-> 3000000,
   irisMin |-> 45, irisRange |-> 35]
DefaultParams ==
  [eye |-> [e \in Eyes |-> EyeDefaults(e)], global |-> GlobalDefaults]

\* what the boot configuration and the render loop can leave: every field
\* away from its default
BootParams ==
  [eye |-> [e \in Eyes |->
      [pupilColor |-> 31, backColor |-> 0,
       irisColor |-> 2016,
       irisStartAngle |-> 100, irisAngle |-> 700,
       irisMirror |-> 1, irisSpin |-> 25, irisISpin |-> 7,
       scleraColor |-> 63488,
       scleraStartAngle |-> 200, scleraAngle |-> 900,
       scleraMirror |-> 1, scleraSpin |-> 75, scleraISpin |-> 9,
       rotation |-> 0, blinkState |-> "ENBLINK", blinkFactor |-> 100]],
   global |-> [tracking |-> FALSE, trackFactor |-> 10, gazeMax |-> 1000,
               irisMin |-> 20, irisRange |-> 60]]

\* the fields a configuration file sets: none of them, or some of them
NoFields == [eye |-> <<>>, global |-> <<>>]
SomeFields ==
  [eye |-> [pupilColor |-> 63519, irisColor |-> 1055, irisSpin |-> 300,
            scleraMirror |-> 1, rotation |-> 1],
   global |-> [tracking |-> FALSE, gazeMax |-> 2000, irisMin |-> 30]]
FieldWrites == {NoFields, SomeFields}

\* record r with the fields w names overwritten
Overwrite(r, w) ==
  [f \in DOMAIN r |-> IF f \in DOMAIN w THEN w[f] ELSE r[f]]

\* loadConfig() writes the fields the file sets and leaves the others
WriteParams(p, fields) ==
  [eye |-> [e \in Eyes |-> Overwrite(p.eye[e], fields.eye)],
   global |-> Overwrite(p.global, fields.global)]

\* mutant: rotation is not reset
ResetParamsMut(p) ==
  [eye |-> [e \in Eyes |->
      [EyeDefaults(e) EXCEPT !.rotation = p.eye[e].rotation]],
   global |-> GlobalDefaults]
\* step 4 on these fields
ResetParams(p) ==
  [eye |-> [e \in Eyes |-> EyeDefaults(e)], global |-> GlobalDefaults]

NoConfig ==
  [none |-> TRUE, names |-> [e \in Eyes |-> [sl \in Slots |-> NullStr]],
   upper |-> NullStr, lower |-> NullStr, fields |-> NoFields,
   stale |-> FALSE]

(***************************************************************************)
(* The heap, as far as the file name strings go.  A field that points to   *)
(* a string is named by its owner; heap.live holds the owners whose        *)
(* string is allocated, heap.err what went wrong so far, heap.freed the    *)
(* owners that had a string freed in the current or last reload.           *)
(***************************************************************************)
Owner(e, sl) == [e |-> e, slot |-> sl]
UpperOwner == [e |-> -1, slot |-> "upper"]
LowerOwner == [e |-> -1, slot |-> "lower"]
EyeOwners == {Owner(e, sl) : e \in Eyes, sl \in Slots}
Owners == EyeOwners \cup {UpperOwner, LowerOwner}

\* the pointer an owner's field holds
FieldOf(eyes, upper, lower, o) ==
  IF o = UpperOwner THEN upper
  ELSE IF o = LowerOwner THEN lower
  ELSE eyes[o.e][o.slot].filename

\* the owners whose field is not NULL
NonNull(eyes, upper, lower) ==
  {o \in Owners : ~FieldOf(eyes, upper, lower, o).null}

\* if (p) { free(p); p = NULL; } for the fields of the owners in os: freeing
\* a pointer that is not allocated is a double free
HeapFree(h, os, eyes, upper, lower) ==
  LET ptrs == os \cap NonNull(eyes, upper, lower)
  IN [live |-> h.live \ ptrs,
      err |-> h.err \cup (IF ptrs \subseteq h.live THEN {} ELSE {"double_free"}),
      freed |-> h.freed \cup ptrs]

\* p = NULL, or p = strdup(...), for the fields of the owners in os, without
\* a free: an allocated string whose only pointer is overwritten is leaked
HeapDrop(h, os) ==
  [live |-> h.live \ os,
   err |-> h.err \cup (IF os \cap h.live = {} THEN {} ELSE {"leak"}),
   freed |-> h.freed]

\* strdup() results stored in the fields of the owners in os
HeapAlloc(h, os) == [h EXCEPT !.live = @ \cup os]

\* the fields of the owners in os are read, and the strings of those that
\* are not NULL: reading a string that is not allocated is a use after free
HeapRead(h, os, eyes, upper, lower) ==
  LET ptrs == os \cap NonNull(eyes, upper, lower)
  IN [h EXCEPT !.err = @ \cup (IF ptrs \subseteq h.live THEN {}
                                ELSE {"use_after_free"})]

\* the file name fields when reloadEyeConfig is first called: all NULL, or
\* strings of the boot configuration that the unit still owns
BootNames ==
  {[eye |-> [e \in Eyes |-> [sl \in Slots |-> NullStr]],
    upper |-> NullStr, lower |-> NullStr],
   [eye |-> [e \in Eyes |-> [sl \in Slots |->
                IF sl = "iris" THEN ShortA ELSE NullStr]],
    upper |-> Str(<<"u", ".", "b", "m", "p">>), lower |-> NullStr]}

InitCache ==
  /\ textureCache \in {<<>>, BootCache}
  /\ decodes = 0
  /\ lastLoad = NoLoad
  /\ inserted = {}

InitReload ==
  /\ pc = "idle"
  /\ eIdx = 0
  /\ elapsed = 0
  /\ dma_busy = [e \in Eyes |-> FALSE]
  /\ geometry = BootGeometry
  /\ params \in {DefaultParams, BootParams}
  /\ \E names \in BootNames :
       /\ eye = [e \in Eyes |-> [sl \in Slots |->
                   [filename |-> names.eye[e][sl], data |-> ColorPtr(e, sl),
                    width |-> 1, height |-> 1]]]
       /\ upperEyelidFilename = names.upper
       /\ lowerEyelidFilename = names.lower
       /\ heap = [live |-> NonNull(eye, names.upper, names.lower), err |-> {},
                  freed |-> {}]
  /\ render = [e \in Eyes |->
              [colNum |-> "DISPLAY_SIZE", colIdx |-> 0, column_ready |-> FALSE,
               eyeX |-> BootGeometry.mapRadius, eyeY |-> BootGeometry.mapRadius]]
  /\ decodeCalls = NoCalls
  /\ loaded = NoConfig

NoPath == "-"
NoCmd ==
  [called |-> FALSE, text |-> <<>>, cycleIndex |-> 0, cycleEnabled |-> 0,
   BKUP |-> [r \in 0 .. 1 |-> Reg(0, 0)]]

\* the statics of user.cpp as the C runtime initialises them
InitUser ==
  /\ cycleIndex = 0
  /\ cycleEnabled = 0
  /\ lastCycleMs = 0
  /\ serialBuf = <<>>
  /\ now = 0
  /\ upc = "reset"
  /\ rx = <<>>
  /\ out = <<>>
  /\ configPath = NoPath
  /\ setupMs = 0
  /\ lastCmd = NoCmd

\* the backup registers are cleared by a power-on reset
PowerOnRegs == [r \in 0 .. 1 |-> Reg(0, 0)]

\* register values a reset can find: cleared, written by saveCycleState, and
\* values with a foreign tag or an index outside the table
Reg0Values ==
  {Reg(0, 0), Tagged(3), Tagged(NUM_STYLES), Reg(CYCLE_MAGIC_MASK.hi - 1, 5)}
Reg1Values ==
  {Reg(0, 0), Tagged(0), Tagged(1), Reg(CYCLE_MAGIC_MASK.hi - 1, 0)}

Init == InitCache /\ InitReload /\ InitUser /\ BKUP = PowerOnRegs

\* any reset, warm or cold, of a board whose texture cache is still empty
InitReset ==
  /\ InitCache
  /\ textureCache = <<>>
  /\ InitReload
  /\ params = BootParams
  /\ heap.live = {}
  /\ InitUser
  /\ BKUP \in [0 .. 1 -> Reg0Values \cup Reg1Values]
  /\ BKUP[0] \in Reg0Values
  /\ BKUP[1] \in Reg1Values


(***************************************************************************)
(* Direct use of the cache: one call of loadTextureWithCache               *)
(***************************************************************************)
CacheLoad(f, fb, outcome) ==
  LET r == loadTextureWithCache(textureCache, f, fb, outcome, NextAlloc)
      fresh == r.decoded /\ r.status = "IMAGE_SUCCESS"
  IN /\ OutcomeAllowed(outcome)
     /\ textureCache' = r.cache
     /\ decodes' = IF fresh THEN decodes + 1 ELSE decodes
     /\ lastLoad' = [called |-> TRUE, filename |-> f, fallback |-> fb,
                     data |-> r.data, width |-> r.width, height |-> r.height,
                     status |-> r.status, decoded |-> r.decoded,
                     before |-> textureCache]
     /\ inserted' = IF fresh /\ Len(r.cache) > Len(textureCache)
                    THEN inserted \cup {[id |-> f, data |-> r.data,
                                         width |-> r.width, height |-> r.height]}
                    ELSE inserted
     /\ UNCHANGED <<reloadVars, userVars>>

NextCache ==
  \E f \in CacheNames \cup {NullStr}, fb \in ColorPtrs, outcome \in DecodeOutcomes :
    CacheLoad(f, fb, outcome)

SpecCache == Init /\ [][NextCache]_vars

(***************************************************************************)
(* The render pipeline and its DMA hardware (outside reload.cpp)           *)
(***************************************************************************)
\* the render loop, running between reloads, starts a column transfer
\* (decodeCalls and loaded describe the reload that has just returned, and
\* are forgotten once the pipeline runs again)
RenderColumn(e) ==
  /\ pc = "idle"
  /\ ~dma_busy[e]
  /\ dma_busy' = [dma_busy EXCEPT ![e] = TRUE]
  /\ decodeCalls' = NoCalls
  /\ loaded' = NoConfig
  /\ heap' = [heap EXCEPT !.freed = {}]
  /\ UNCHANGED <<userVars, cacheVars, pc, eIdx, elapsed, geometry, params, eye, render,
                 upperEyelidFilename, lowerEyelidFilename>>

\* the DMA completion callback clears the flag; hung hardware never does
DmaComplete(e) ==
  /\ dma_busy[e]
  /\ dma_busy' = [dma_busy EXCEPT ![e] = FALSE]
  /\ UNCHANGED <<userVars, cacheVars, pc, eIdx, elapsed, geometry, params, heap, eye, render,
                 upperEyelidFilename, lowerEyelidFilename, decodeCalls, loaded>>

(***************************************************************************)
(* reloadEyeConfig (reload.cpp lines 104-273), one action per step         *)
(***************************************************************************)
ReloadStart ==
  /\ pc = "idle"
  /\ pc' = "drain"
  /\ eIdx' = 0
  /\ elapsed' = 0
  /\ decodeCalls' = NoCalls
  /\ loaded' = NoConfig
  /\ heap' = [heap EXCEPT !.freed = {}]
  /\ UNCHANGED <<userVars, cacheVars, dma_busy, geometry, params, eye, render,
                 upperEyelidFilename, lowerEyelidFilename>>

\* the for loop of step 1 moves on to the next eye, or on to step 2
DrainAdvance ==
  IF eIdx + 1 < NUM_EYES
  THEN pc' = "drain" /\ eIdx' = eIdx + 1 /\ elapsed' = 0
  ELSE pc' = "detach" /\ eIdx' = 0 /\ elapsed' = 0

\* while (eye[e].dma_busy) found false
DrainIdle ==
  /\ pc = "drain"
  /\ ~dma_busy[eIdx]
  /\ DrainAdvance
  /\ UNCHANGED <<userVars, cacheVars, dma_busy, geometry, params, heap, eye, render,
                 upperEyelidFilename, lowerEyelidFilename, decodeCalls, loaded>>

\* the millisecond clock advances while the loop spins
DrainTick ==
  /\ pc = "drain"
  /\ dma_busy[eIdx]
  /\ elapsed <= DRAIN_TIMEOUT_MS
  /\ elapsed' = Min(elapsed + TickMs, DRAIN_TIMEOUT_MS + 1)
  /\ UNCHANGED <<userVars, cacheVars, pc, eIdx, dma_busy, geometry, params, heap, eye, render,
                 upperEyelidFilename, lowerEyelidFilename, decodeCalls, loaded>>

\* mutant: the timeout escape is missing
TimedOutMut(ms) == FALSE
TimedOut(ms) == ms > DRAIN_TIMEOUT_MS

\* mutant: the timeout branch leaves the loop without clearing the flag
DrainTimeoutMut ==
  /\ pc = "drain"
  /\ dma_busy[eIdx]
  /\ TimedOut(elapsed)
  /\ DrainAdvance
  /\ UNCHANGED <<userVars, cacheVars, dma_busy, geometry, params, heap, eye, render,
                 upperEyelidFilename, lowerEyelidFilename, decodeCalls, loaded>>
\* (millis() - timeout) > 100: dma.fix(), clear the flag, break
DrainTimeout ==
  /\ pc = "drain"
  /\ dma_busy[eIdx]
  /\ TimedOut(elapsed)
  /\ dma_busy' = [dma_busy EXCEPT ![eIdx] = FALSE]
  /\ DrainAdvance
  /\ UNCHANGED <<userVars, cacheVars, geometry, params, heap, eye, render,
                 upperEyelidFilename, lowerEyelidFilename, decodeCalls, loaded>>

\* step 2: digitalWrite(cs, HIGH); spi->endTransaction() for every eye
Detach ==
  /\ pc = "detach"
  /\ pc' = "free_old"
  /\ UNCHANGED <<userVars, cacheVars, eIdx, elapsed, dma_busy, geometry, params, heap, eye, render,
                 upperEyelidFilename, lowerEyelidFilename, decodeCalls, loaded>>

\* mutant: the sclera file names are forgotten
FreeFilenamesMut(eyes) ==
  [e \in Eyes |-> [sl \in Slots |->
     IF sl = "iris" THEN [eyes[e][sl] EXCEPT !.filename = NullStr] ELSE eyes[e][sl]]]
\* free(p); p = NULL for every file name field
FreeFilenames(eyes) ==
  [e \in Eyes |-> [sl \in Slots |-> [eyes[e][sl] EXCEPT !.filename = NullStr]]]

\* mutant: step 3 is skipped
FreeOldMut ==
  /\ pc = "free_old"
  /\ pc' = "reset"
  /\ UNCHANGED <<userVars, cacheVars, eIdx, elapsed, dma_busy, geometry, params,
                 heap, eye, render, upperEyelidFilename, lowerEyelidFilename,
                 decodeCalls, loaded>>
\* step 3
FreeOld ==
  /\ pc = "free_old"
  /\ pc' = "reset"
  /\ upperEyelidFilename' = NullStr
  /\ lowerEyelidFilename' = NullStr
  /\ eye' = FreeFilenames(eye)
  /\ heap' = HeapFree(heap, Owners, eye, upperEyelidFilename, lowerEyelidFilename)
  /\ UNCHANGED <<userVars, cacheVars, eIdx, elapsed, dma_busy, geometry, params, render, decodeCalls, loaded>>

\* step 4, the texture fields: data and filename are cleared, width and
\* height are left as they were
ResetDefaults(eyes) ==
  [e \in Eyes |-> [sl \in Slots |->
     [eyes[e][sl] EXCEPT !.data = NullPtr, !.filename = NullStr]]]

ResetEyes ==
  /\ pc = "reset"
  /\ pc' = "load_config"
  /\ eye' = ResetDefaults(eye)
  /\ params' = ResetParams(params)
  /\ heap' = HeapDrop(heap, EyeOwners)
  /\ loaded' = [loaded EXCEPT !.stale = (params # DefaultParams)]
  /\ UNCHANGED <<userVars, cacheVars, eIdx, elapsed, dma_busy, geometry, render,
                 upperEyelidFilename, lowerEyelidFilename, decodeCalls>>

\* what loadConfig() may write: file names (strdup'ed or left NULL) and geometry
EyelidNames == {Str(<<"u", ".", "b", "m", "p">>)}
NameWrites == [Eyes -> [Slots -> TexNames \cup {NullStr}]]
EyelidWrites == EyelidNames \cup {NullStr}
\* the configuration files tried: those that name one eyelid also set fields
ConfigRest ==
  {rest \in [upper : EyelidWrites, lower : EyelidWrites, fields : FieldWrites] :
     (rest.fields = SomeFields) <=> (rest.upper.null # rest.lower.null)}

\* mutant: the restore forgets coverage
RestoreGeometryMut(saved, written) ==
  [eyeRadius |-> saved.eyeRadius, eyeDiameter |-> saved.eyeDiameter,
   irisRadius |-> saved.irisRadius, slitPupilRadius |-> saved.slitPupilRadius,
   mapRadius |-> saved.mapRadius, mapDiameter |-> saved.mapDiameter,
   coverage |-> written.coverage]
\* geometry after "restore fixed geometry": the saved values win
RestoreGeometry(saved, written) ==
  [eyeRadius |-> saved.eyeRadius, eyeDiameter |-> saved.eyeDiameter,
   irisRadius |-> saved.irisRadius, slitPupilRadius |-> saved.slitPupilRadius,
   mapRadius |-> saved.mapRadius, mapDiameter |-> saved.mapDiameter,
   coverage |-> saved.coverage]

\* step 5: save geometry, loadConfig(configPath), restore geometry
LoadConfig ==
  /\ pc = "load_config"
  /\ pc' = "textures"
  /\ eIdx' = 0
  /\ \E names \in NameWrites :
       /\ eye' = [e \in Eyes |-> [sl \in Slots |->
                    [eye[e][sl] EXCEPT !.filename = names[e][sl]]]]
       /\ \E rest \in ConfigRest :
            /\ upperEyelidFilename' = rest.upper
            /\ lowerEyelidFilename' = rest.lower
            /\ params' = WriteParams(params, rest.fields)
            /\ loaded' = [none |-> FALSE, names |-> names,
                          upper |-> rest.upper, lower |-> rest.lower,
                          fields |-> rest.fields, stale |-> loaded.stale]
            /\ \E written \in {NonNull(eye', rest.upper, rest.lower)} :
                 heap' = HeapAlloc(HeapDrop(heap, written), written)
  /\ \E written \in GeomValues : geometry' = RestoreGeometry(geometry, written)
  /\ UNCHANGED <<userVars, cacheVars, elapsed, dma_busy, render, decodeCalls>>

\* mutant: the cross-eye check never matches
SharedFromMut(eyes, e, sl) == -1
\* the first earlier eye with the same non-NULL file name in slot sl, or -1
SharedFrom(eyes, e, sl) ==
  LET m == {e2 \in 0 .. (e - 1) :
              /\ ~eyes[e][sl].filename.null
              /\ ~eyes[e2][sl].filename.null
              /\ eyes[e][sl].filename.s = eyes[e2][sl].filename.s}
  IN IF m = {} THEN -1 ELSE CHOOSE e2 \in m : \A x \in m : e2 <= x

\* one slot of one eye in step 6: copy from an earlier eye or load
ResolveSlot(eyes, cache, e, sl, outcome, alloc) ==
  LET m == SharedFrom(eyes, e, sl)
  IN IF m # -1
     THEN [tex |-> [eyes[e][sl] EXCEPT !.data = eyes[m][sl].data,
                                       !.width = eyes[m][sl].width,
                                       !.height = eyes[m][sl].height],
           cache |-> cache, decoded |-> FALSE, fresh |-> FALSE]
     ELSE LET r == loadTextureWithCache(cache, eyes[e][sl].filename,
                                        ColorPtr(e, sl), outcome, alloc)
          IN [tex |-> [eyes[e][sl] EXCEPT !.data = r.data, !.width = r.width,
                                          !.height = r.height],
              cache |-> r.cache, decoded |-> r.decoded,
              fresh |-> r.decoded /\ r.status = "IMAGE_SUCCESS"]

Count(calls, sl, f, hit) ==
  IF hit /\ ~f.null THEN [calls EXCEPT ![sl][f] = @ + 1] ELSE calls

\* the outcome drawn for a decoder that is not invoked
NotCalled == "IMAGE_ERR_FILE_NOT_FOUND"

Fresh(r) == IF r.fresh THEN 1 ELSE 0

\* the iteration's results, given the iris result ri and the sclera result rs
TextureResults(eyes, calls, e, oi, os, dec, ri, rs) ==
  [possible |->
     /\ IF ri.decoded
        THEN oi = "IMAGE_SUCCESS" => dec < MaxDecodes
        ELSE oi = NotCalled
     /\ IF rs.decoded
        THEN os = "IMAGE_SUCCESS" => dec + Fresh(ri) < MaxDecodes
        ELSE os = NotCalled,
   eye |-> [eyes EXCEPT ![e] = [iris |-> ri.tex, sclera |-> rs.tex]],
   cache |-> rs.cache,
   decodes |-> dec + Fresh(ri) + Fresh(rs),
   calls |-> Count(Count(calls, "iris", eyes[e]["iris"].filename, ri.decoded),
                   "sclera", eyes[e]["sclera"].filename, rs.decoded)]

\* step 6, one iteration of the eye loop: yield(), iris, then sclera.
\* oi and os are the decoder's outcomes, dec the decodes made so far.
\* (The one-element sets bind each intermediate result once.)
TextureLoop(eyes, cache, calls, e, oi, os, dec) ==
  CHOOSE res \in
    UNION {
      {TextureResults(eyes, calls, e, oi, os, dec, ri, rs) :
         rs \in {ResolveSlot(eyes, ri.cache, e, "sclera", os,
                             MAX_CACHED_TEXTURES + 1 + dec + Fresh(ri))}} :
      ri \in {ResolveSlot(eyes, cache, e, "iris", oi,
                          MAX_CACHED_TEXTURES + 1 + dec)}} : TRUE

LoadTexturesWith(oi, os) ==
  \E r \in {TextureLoop(eye, textureCache, decodeCalls, eIdx, oi, os, decodes)} :
     /\ r.possible
     /\ eye' = r.eye
     /\ textureCache' = r.cache
     /\ decodes' = r.decodes
     /\ decodeCalls' = r.calls
     /\ IF eIdx + 1 < NUM_EYES
        THEN pc' = "textures" /\ eIdx' = eIdx + 1
        ELSE pc' = "eyelids" /\ eIdx' = 0
     /\ heap' = HeapRead(heap, {Owner(e, sl) : e \in 0 .. eIdx, sl \in Slots},
                         eye, upperEyelidFilename, lowerEyelidFilename)
     /\ UNCHANGED <<userVars, lastLoad, inserted, elapsed, dma_busy, geometry, params, render,
                    upperEyelidFilename, lowerEyelidFilename, loaded>>

LoadTextures ==
  /\ pc = "textures"
  /\ \E oi \in DecodeOutcomes, os \in DecodeOutcomes : LoadTexturesWith(oi, os)

\* step 7: yield(), loadEyelid() twice (external; reads the two file names)
LoadEyelids ==
  /\ pc = "eyelids"
  /\ pc' = "free_tmp"
  /\ heap' = HeapRead(heap, {UpperOwner, LowerOwner},
                      eye, upperEyelidFilename, lowerEyelidFilename)
  /\ UNCHANGED <<userVars, cacheVars, eIdx, elapsed, dma_busy, geometry, params, eye, render,
                 upperEyelidFilename, lowerEyelidFilename, decodeCalls, loaded>>

\* step 8
FreeTmp ==
  /\ pc = "free_tmp"
  /\ pc' = "resume"
  /\ eye' = FreeFilenames(eye)
  /\ lowerEyelidFilename' = NullStr
  /\ upperEyelidFilename' = NullStr
  /\ heap' = HeapFree(heap, Owners, eye, upperEyelidFilename, lowerEyelidFilename)
  /\ UNCHANGED <<userVars, cacheVars, eIdx, elapsed, dma_busy, geometry, params, render, decodeCalls, loaded>>

\* step 9, and the return
Resume ==
  /\ pc = "resume"
  /\ pc' = "idle"
  /\ dma_busy' = [e \in Eyes |-> FALSE]
  /\ render' = [e \in Eyes |->
                 [colNum |-> "DISPLAY_SIZE", colIdx |-> 0, column_ready |-> FALSE,
                  eyeX |-> geometry.mapRadius, eyeY |-> geometry.mapRadius]]
  /\ UNCHANGED <<userVars, cacheVars, eIdx, elapsed, geometry, params, heap, eye,
                 upperEyelidFilename, lowerEyelidFilename, decodeCalls, loaded>>

ReloadStep ==
  \/ ReloadStart
  \/ DrainIdle
  \/ DrainTimeout
  \/ Detach
  \/ FreeOld
  \/ ResetEyes
  \/ LoadConfig
  \/ LoadTextures
  \/ LoadEyelids
  \/ FreeTmp
  \/ Resume

Next ==
  \/ ReloadStep
  \/ DrainTick
  \/ \E e \in Eyes : RenderColumn(e)
  \/ \E e \in Eyes : DmaComplete(e)

Spec == Init /\ [][Next]_vars

\* the processor keeps executing and the clock keeps running; nothing is
\* assumed of the DMA hardware
SpecLive == Spec /\ WF_vars(ReloadStep) /\ WF_vars(DrainTick)

(***************************************************************************)
(* user.cpp: startup, user_loop and the serial host                        *)
(***************************************************************************)
\* the machine state a command works on
Machine ==
  [cycleIndex |-> cycleIndex, cycleEnabled |-> cycleEnabled, BKUP |-> BKUP,
   lastCycleMs |-> lastCycleMs, out |-> <<>>, reset |-> FALSE]

\* NVIC_SystemReset: the statics are initialised again and the clock
\* restarts; the backup registers keep their values
SystemReset ==
  /\ cycleIndex' = 0
  /\ cycleEnabled' = 0
  /\ lastCycleMs' = 0
  /\ serialBuf' = <<>>
  /\ now' = 0
  /\ upc' = "reset"
  /\ rx' = <<>>
  /\ configPath' = NoPath
  /\ setupMs' = 0

\* the state a finished command or reboot leaves
Commit(m) ==
  IF m.reset
  THEN /\ SystemReset
       /\ BKUP' = m.BKUP
       /\ out' = m.out
  ELSE /\ cycleIndex' = m.cycleIndex
       /\ cycleEnabled' = m.cycleEnabled
       /\ BKUP' = m.BKUP
       /\ lastCycleMs' = m.lastCycleMs
       /\ out' = m.out
       /\ serialBuf' = <<>>
       /\ rx' = Tail(rx)
       /\ UNCHANGED <<now, upc, configPath, setupMs>>

\* setup() asks for the configuration path before it loads the configuration
GetCycleConfigPath ==
  /\ upc = "reset"
  /\ LET st == loadCycleState(BKUP)
     IN /\ cycleIndex' = st.cycleIndex
        /\ cycleEnabled' = st.cycleEnabled
        /\ configPath' = Style(st.cycleIndex).configPath
  /\ upc' = "setup"
  /\ UNCHANGED <<BKUP, lastCycleMs, serialBuf, now, rx, out, setupMs, lastCmd>>
  /\ UNCHANGED <<cacheVars, reloadVars>>

user_setup ==
  /\ upc = "setup"
  /\ out' = <<Line("Eye style: %s (%d/%d) autocycle=%s\n",
                   <<Style(cycleIndex).name, cycleIndex, NUM_STYLES,
                     IF cycleEnabled # 0 THEN "on (2 min)" ELSE "off">>),
              Line("Commands: MOOD:<name|list|next>, STATUS, AUTOCYCLE:<on|off>",
                   <<>>)>>
  /\ lastCycleMs' = now
  /\ setupMs' = now
  /\ upc' = "loop"
  /\ lastCmd' = NoCmd
  /\ UNCHANGED <<BKUP, cycleIndex, cycleEnabled, serialBuf, now, rx, configPath>>
  /\ UNCHANGED <<cacheVars, reloadVars>>

\* millis() advances between the calls of setup() and of loop()
Tick ==
  /\ upc \in {"setup", "loop"}
  /\ rx = <<>>
  /\ now < MaxTicks * CycleTickMs
  /\ now' = now + CycleTickMs
  /\ UNCHANGED <<BKUP, cycleIndex, cycleEnabled, lastCycleMs, serialBuf, upc, rx,
                 out, configPath, setupMs, lastCmd>>
  /\ UNCHANGED <<cacheVars, reloadVars>>

\* the host sends one terminated line
HostSend(line, term) ==
  /\ upc = "loop"
  /\ rx = <<>>
  /\ rx' = line \o term
  /\ out' = <<>>
  /\ lastCmd' = NoCmd
  /\ UNCHANGED <<BKUP, cycleIndex, cycleEnabled, lastCycleMs, serialBuf, now, upc,
                 configPath, setupMs>>
  /\ UNCHANGED <<cacheVars, reloadVars>>

\* mutant: the comparison is strict
CycleDueMut ==
  cycleEnabled # 0 /\ now - lastCycleMs > CYCLE_MS
\* user_loop, the auto-cycle timer (lastCycleMs never exceeds millis() in the
\* time a start is followed for, so the unsigned difference does not wrap)
CycleDue ==
  cycleEnabled # 0 /\ now - lastCycleMs >= CYCLE_MS

UserLoopCycle ==
  /\ upc = "loop"
  /\ CycleDue
  /\ Commit(rebootToStyle(Machine, cycleIndex + 1))
  /\ lastCmd' = NoCmd
  /\ UNCHANGED <<cacheVars, reloadVars>>

UserLoopPoll ==
  /\ upc = "loop"
  /\ ~CycleDue
  /\ upc' = "read"
  /\ UNCHANGED <<BKUP, cycleIndex, cycleEnabled, lastCycleMs, serialBuf, now, rx,
                 out, configPath, setupMs, lastCmd>>
  /\ UNCHANGED <<cacheVars, reloadVars>>

\* one iteration of while (Serial.available()): a line terminator
SerialTerminator ==
  /\ upc = "read"
  /\ rx # <<>>
  /\ Head(rx) \in {"LF", "CR"}
  /\ IF serialIdx > 0
     THEN /\ Commit(processCommand(Machine, serialBuf, now))
          /\ lastCmd' = [called |-> TRUE, text |-> serialBuf,
                         cycleIndex |-> cycleIndex, cycleEnabled |-> cycleEnabled,
                         BKUP |-> BKUP]
     ELSE /\ rx' = Tail(rx)
          /\ UNCHANGED <<BKUP, cycleIndex, cycleEnabled, lastCycleMs, serialBuf,
                         now, upc, out, configPath, setupMs, lastCmd>>
  /\ UNCHANGED <<cacheVars, reloadVars>>

\* mutant: a character that does not fit overwrites the last one
SerialCharMut ==
  /\ upc = "read"
  /\ rx # <<>>
  /\ Head(rx) \notin {"LF", "CR"}
  /\ serialBuf' = IF serialIdx < SERIAL_BUF_SIZE - 1
                  THEN Append(serialBuf, Head(rx))
                  ELSE [serialBuf EXCEPT ![SERIAL_BUF_SIZE - 1] = Head(rx)]
  /\ rx' = Tail(rx)
  /\ UNCHANGED <<BKUP, cycleIndex, cycleEnabled, lastCycleMs, now, upc, out,
                 configPath, setupMs, lastCmd>>
  /\ UNCHANGED <<cacheVars, reloadVars>>
\* one iteration of while (Serial.available()): any other character
SerialChar ==
  /\ upc = "read"
  /\ rx # <<>>
  /\ Head(rx) \notin {"LF", "CR"}
  /\ serialBuf' = IF serialIdx < SERIAL_BUF_SIZE - 1
                  THEN Append(serialBuf, Head(rx))
                  ELSE serialBuf
  /\ rx' = Tail(rx)
  /\ UNCHANGED <<BKUP, cycleIndex, cycleEnabled, lastCycleMs, now, upc, out,
                 configPath, setupMs, lastCmd>>
  /\ UNCHANGED <<cacheVars, reloadVars>>

\* Serial.available() is 0: user_loop returns
UserLoopReturn ==
  /\ upc = "read"
  /\ rx = <<>>
  /\ upc' = "loop"
  /\ lastCmd' = NoCmd
  /\ UNCHANGED <<BKUP, cycleIndex, cycleEnabled, lastCycleMs, serialBuf, now, rx,
                 out, configPath, setupMs>>
  /\ UNCHANGED <<cacheVars, reloadVars>>

NextUser ==
  \/ GetCycleConfigPath
  \/ user_setup
  \/ Tick
  \/ \E line \in UserLines, term \in Terminators : HostSend(line, term)
  \/ UserLoopCycle
  \/ UserLoopPoll
  \/ SerialTerminator
  \/ SerialChar
  \/ UserLoopReturn

SpecUser == InitReset /\ [][NextUser]_vars

(***************************************************************************)
(* Properties                                                              *)
(***************************************************************************)
\* a reload has just returned: loaded and decodeCalls describe it
Returned == pc = "idle" /\ ~loaded.none

\* C1: after each reload returns, the seven protected geometry values are
\* the ones the device booted with, whatever loadConfig wrote into them.
C1_GeometryPreserved == pc = "idle" => geometry = BootGeometry

\* a reload returned, and loadConfig had overwritten the geometry
C1_Witness == Returned /\ BootGeometry \notin GeomValues

SameTexture(a, b) ==
  a.data = b.data /\ a.width = b.width /\ a.height = b.height

\* pairs of eyes that loadConfig gave the same non-NULL file name in slot sl
SameNamed(sl) ==
  {p \in Eyes \X Eyes :
     /\ p[1] # p[2]
     /\ ~loaded.names[p[1]][sl].null
     /\ loaded.names[p[1]][sl] = loaded.names[p[2]][sl]}

TotalCalls(f) == decodeCalls["iris"][f] + decodeCalls["sclera"][f]

\* C2 as stated: eyes with the same file name in a slot end with the same
\* data pointer, width and height, and loadTexture ran at most once for
\* that file name in the whole reload.
C2_Original ==
  Returned =>
    \A sl \in Slots : \A p \in SameNamed(sl) :
      /\ SameTexture(eye[p[1]][sl], eye[p[2]][sl])
      /\ TotalCalls(loaded.names[p[1]][sl]) <= 1

\* C2 (amended): eyes with the same file name in a slot end with the same
\* data pointer, width and height, and loadTexture ran at most once for
\* that file name on behalf of that slot.
C2_SharedPerSlot ==
  Returned =>
    \A sl \in Slots : \A p \in SameNamed(sl) :
      /\ SameTexture(eye[p[1]][sl], eye[p[2]][sl])
      /\ decodeCalls[sl][loaded.names[p[1]][sl]] <= 1

\* two eyes shared a file name whose decode failed
C2_Witness ==
  /\ Returned
  /\ \E sl \in Slots : \E p \in SameNamed(sl) :
       /\ decodeCalls[sl][loaded.names[p[1]][sl]] = 1
       /\ eye[p[1]][sl].data.kind = "color"
       /\ eye[p[2]][sl].data = eye[p[1]][sl].data

\* C3: no two cache entries have the same stored file name.
C3_CacheNamesUnique ==
  \A i \in 1 .. Len(textureCache) : \A j \in 1 .. Len(textureCache) :
    textureCache[i].filename = textureCache[j].filename => i = j

\* C4: every accepted insert (id, d, w, h) is found by a later lookup of id,
\* with exactly d, w and h.
C4_InsertedFound ==
  \A r \in inserted :
    LET i == findCachedTexture(textureCache, r.id)
    IN /\ i # 0
       /\ textureCache[i].data = r.data
       /\ textureCache[i].width = r.width
       /\ textureCache[i].height = r.height

\* C5: the cache never holds more than MAX_CACHED_TEXTURES entries; a load
\* that misses on a full cache leaves every entry as it was and still
\* returns the image the decoder produced.
C5_FullCacheRejects ==
  /\ Len(textureCache) <= MAX_CACHED_TEXTURES
  /\ (lastLoad.called /\ Len(lastLoad.before) = MAX_CACHED_TEXTURES) =>
       /\ textureCache = lastLoad.before
       /\ (lastLoad.decoded /\ lastLoad.status = "IMAGE_SUCCESS") =>
            /\ lastLoad.data = FlashPtr(MAX_CACHED_TEXTURES + decodes)
            /\ lastLoad.width = DimsOf(lastLoad.filename).w
            /\ lastLoad.height = DimsOf(lastLoad.filename).h

\* a decode succeeded while the cache was full
C5_Witness ==
  /\ lastLoad.called
  /\ Len(lastLoad.before) = MAX_CACHED_TEXTURES
  /\ lastLoad.decoded
  /\ lastLoad.status = "IMAGE_SUCCESS"

\* C6: a load with a NULL file name returns the fallback color pointer as
\* a 1x1 image with IMAGE_ERR_FILE_NOT_FOUND, without calling the decoder
\* and without changing the cache.
C6_NullFilename ==
  (lastLoad.called /\ lastLoad.filename.null) =>
    /\ lastLoad.data = lastLoad.fallback
    /\ lastLoad.width = 1
    /\ lastLoad.height = 1
    /\ lastLoad.status = "IMAGE_ERR_FILE_NOT_FOUND"
    /\ ~lastLoad.decoded
    /\ textureCache = lastLoad.before

\* a NULL load on a cache that holds entries
C6_Witness ==
  /\ lastLoad.called
  /\ lastLoad.filename.null
  /\ lastLoad.before # <<>>

AllFilenamesNull ==
  /\ \A e \in Eyes : \A sl \in Slots : eye[e][sl].filename.null
  /\ upperEyelidFilename.null
  /\ lowerEyelidFilename.null

\* C7: when reloadEyeConfig has returned, every file name field is NULL.
C7_NoOwnedStrings == Returned => AllFilenamesNull

\* a reload returned after loadConfig had allocated every file name
C7_Witness ==
  /\ Returned
  /\ \A e \in Eyes : \A sl \in Slots : ~loaded.names[e][sl].null
  /\ ~loaded.upper.null
  /\ ~loaded.lower.null

\* C8: a reload that has started always returns.
C8_Terminates == (pc # "idle") ~> (pc = "idle")

\* the drain loop is about to force a unit whose flag never cleared
C8_Witness ==
  /\ pc = "drain"
  /\ dma_busy[eIdx]
  /\ TimedOut(elapsed)

(***************************************************************************)
(* The serial command interface                                            *)
(***************************************************************************)
\* processCommand has just run on a line and user_loop has not returned
Processed == lastCmd.called /\ upc = "read"

Printed(fmt) == \E i \in DOMAIN out : out[i] = Line(fmt, <<>>)

\* C9: on the input line AUTOCYCLE:on (AUTOCYCLE:off), in any letter case,
\* the enabled flag is set to true (false), the flag is written to the
\* backup register with the magic tag, and AUTOCYCLE:on (AUTOCYCLE:off) is
\* written to Serial.
C9_AutocycleSets ==
  Processed =>
    /\ strcasecmp(lastCmd.text, LitAutocycle \o LitOn) = 0 =>
         /\ cycleEnabled = 1
         /\ BKUP[1] = Tagged(1)
         /\ Printed("AUTOCYCLE:on")
    /\ strcasecmp(lastCmd.text, LitAutocycle \o LitOff) = 0 =>
         /\ cycleEnabled = 0
         /\ BKUP[1] = Tagged(0)
         /\ Printed("AUTOCYCLE:off")

\* the commands the interface documents, compared ignoring case and leading
\* blanks
Recognized(text) ==
  LET cmd == SkipBlanks(text)
  IN \/ \E lit \in {LitMood \o LitList, LitMood \o LitNext, LitStatus,
                    LitAutocycle \o LitOn, LitAutocycle \o LitOff} :
          strcasecmp(cmd, lit) = 0
     \/ \E i \in 0 .. (NUM_STYLES - 1) :
          strcasecmp(cmd, LitMood \o Style(i).name) = 0

\* a diagnostic line whose argument is the text of the line, or the part of
\* it after the MOOD: prefix
Echoed(text) ==
  \E i \in DOMAIN out :
    \/ out[i] = Line("UNKNOWN:CMD:%s\n", <<SkipBlanks(text)>>)
    \/ /\ strncasecmp(SkipBlanks(text), LitMood, 5) = 0
       /\ out[i] = Line("UNKNOWN:STYLE:%s\n", <<Drop(SkipBlanks(text), 5)>>)

\* C10: every line that is not blank and not one of the recognized commands
\* is answered with a diagnostic line echoing its text, causes no restart,
\* and leaves the cycle index, the enabled flag and both backup registers as
\* they were.
C10_UnknownEchoed ==
  (lastCmd.called /\ SkipBlanks(lastCmd.text) # <<>>
   /\ ~Recognized(lastCmd.text)) =>
    /\ upc = "read"
    /\ Echoed(lastCmd.text)
    /\ cycleIndex = lastCmd.cycleIndex
    /\ cycleEnabled = lastCmd.cycleEnabled
    /\ BKUP = lastCmd.BKUP

(***************************************************************************)
(* The persistent cycle record                                             *)
(***************************************************************************)
ValidTag(v) == High16(v) = CYCLE_MAGIC_MASK

\* getCycleConfigPath has just returned: the statics hold what loadCycleState
\* read from the backup registers
Loaded == upc = "setup"

\* C11: a record whose magic tag is missing or corrupted in either register
\* is loaded as no prior state: index 0 and cycling enabled.
C11_CorruptRecordDefaults ==
  (Loaded /\ (~ValidTag(BKUP[0]) \/ ~ValidTag(BKUP[1]))) =>
    cycleIndex = 0 /\ cycleEnabled = 1

(***************************************************************************)
(* MOOD:list                                                               *)
(***************************************************************************)
IsCommand(text, lit) == strcasecmp(SkipBlanks(text), lit) = 0

\* the cycle index, the enabled flag and both backup registers are as they
\* were when processCommand was called
StateKept ==
  /\ cycleIndex = lastCmd.cycleIndex
  /\ cycleEnabled = lastCmd.cycleEnabled
  /\ BKUP = lastCmd.BKUP

\* lines 2 .. NUM_STYLES + 1 of the output name the table entries, each once,
\* in declaration order
EntriesInOrder ==
  /\ Len(out) >= NUM_STYLES + 1
  /\ \A k \in 1 .. NUM_STYLES :
       /\ out[k + 1].fmt = "  %s -> %s%s\n"
       /\ out[k + 1].args[1] = styleTable[k].name
       /\ out[k + 1].args[2] = styleTable[k].configPath

\* C12 as stated: the response to MOOD:list holds every table entry once, in
\* declaration order, its final line is MOOD:CURRENT:<active name>, and no
\* state changes.
C12_Original ==
  (lastCmd.called /\ IsCommand(lastCmd.text, LitMood \o LitList)) =>
    /\ upc = "read"
    /\ EntriesInOrder
    /\ out[Len(out)] = Line("MOOD:CURRENT:%s\n", <<Style(cycleIndex).name>>)
    /\ StateKept

\* C12 (amended): the response to MOOD:list is STYLE:LIST, then one line per
\* table entry, each entry once and in declaration order, then
\* STYLE:CURRENT:<active name>, and its final line is AUTOCYCLE:on or
\* AUTOCYCLE:off after the enabled flag; no state changes and the device does
\* not restart.
C12_ListResponse ==
  (lastCmd.called /\ IsCommand(lastCmd.text, LitMood \o LitList)) =>
    /\ upc = "read"
    /\ Len(out) = NUM_STYLES + 3
    /\ out[1] = Line("STYLE:LIST", <<>>)
    /\ EntriesInOrder
    /\ out[NUM_STYLES + 2] = Line("STYLE:CURRENT:%s\n", <<Style(cycleIndex).name>>)
    /\ out[NUM_STYLES + 3] =
         Line("AUTOCYCLE:%s\n", <<IF cycleEnabled = 0 THEN "off" ELSE "on">>)
    /\ StateKept

\* a list was answered while a style other than the first is active and
\* cycling is off
C12_Witness ==
  /\ Processed
  /\ IsCommand(lastCmd.text, LitMood \o LitList)
  /\ cycleIndex > 0
  /\ cycleEnabled = 0
  /\ Len(out) > NUM_STYLES

(***************************************************************************)
(* MOOD:<name> with a name the table does not hold                         *)
(***************************************************************************)
\* the line is MOOD:<name> and <name> is neither a table entry nor list nor
\* next
UnknownMood(text) ==
  LET cmd == SkipBlanks(text)
  IN /\ strncasecmp(cmd, LitMood, 5) = 0
     /\ StyleMatches(Drop(cmd, 5)) = {}
     /\ strcasecmp(Drop(cmd, 5), LitList) # 0
     /\ strcasecmp(Drop(cmd, 5), LitNext) # 0

MoodName(text) == Drop(SkipBlanks(text), 5)

\* C13 as stated: MOOD:xyz with an unknown name changes nothing, restarts
\* nothing, and is answered with UNKNOWN:MOOD:xyz.
C13_Original ==
  (lastCmd.called /\ UnknownMood(lastCmd.text)) =>
    /\ upc = "read"
    /\ pc = "idle"
    /\ StateKept
    /\ out = <<Line("UNKNOWN:MOOD:%s\n", <<MoodName(lastCmd.text)>>)>>

\* C13 (amended): MOOD:xyz with a name that matches no table entry (and is
\* not list or next) leaves the cycle index, the enabled flag, both backup
\* registers and the reload state unchanged, triggers no restart, and is
\* answered with the one line UNKNOWN:STYLE:xyz.
C13_UnknownStyle ==
  (lastCmd.called /\ UnknownMood(lastCmd.text)) =>
    /\ upc = "read"
    /\ pc = "idle"
    /\ StateKept
    /\ out = <<Line("UNKNOWN:STYLE:%s\n", <<MoodName(lastCmd.text)>>)>>

\* MOOD:xyz was answered while a style other than the first is active
C13_Witness ==
  /\ Processed
  /\ lastCmd.text = LineNoStyle
  /\ cycleIndex > 0
  /\ out # <<>>

(***************************************************************************)
(* The auto-cycle timer                                                    *)
(***************************************************************************)
\* a user_loop call begins: its timer check is the step taken
UserLoopBegins == upc = "loop" /\ upc' # "loop"

\* the step saves the next index with the tag and resets the device
RestartsToNext ==
  /\ upc' = "reset"
  /\ BKUP'[0] = Tagged((cycleIndex + 1) % NUM_STYLES)

\* C14 as stated: with cycling enabled, a user_loop call made 120000 ms or
\* more after startup (the return of user_setup) saves the next index and
\* restarts; with cycling disabled, the timer check of user_loop never
\* restarts.
C14_Original ==
  [][UserLoopBegins =>
       IF cycleEnabled # 0
       THEN now - setupMs >= CYCLE_MS => RestartsToNext
       ELSE upc' = "read"]_vars

\* C14 (amended): with cycling enabled, a user_loop call saves the index
\* (current index + 1) modulo the number of styles and restarts exactly when
\* 120000 ms or more have passed since the timer was last armed, by
\* user_setup or by an accepted AUTOCYCLE on command; with cycling disabled,
\* the timer check of user_loop never restarts.
C14_TimerRestart ==
  [][UserLoopBegins =>
       IF cycleEnabled # 0 /\ now - lastCycleMs >= CYCLE_MS
       THEN RestartsToNext
       ELSE upc' = "read" /\ UNCHANGED BKUP]_vars

\* the timer has restarted the device from the last style of the table
C14_Witness ==
  /\ upc = "reset"
  /\ ~lastCmd.called
  /\ out = <<Line("STYLE:REBOOTING:%s\n", <<Style(0).name>>)>>
  /\ BKUP[0] = Tagged(0)

(***************************************************************************)
(* The render pipeline during a reload                                     *)
(***************************************************************************)
\* C15: once the drain loop has passed a unit, and from the end of the drain
\* step until reloadEyeConfig returns, that unit's busy flag is false; so the
\* flags are all false when the channels are deselected (step 2) and no
\* transfer is started in steps 2 to 9, the yield() calls included.
C15_NoTransferInReload ==
  /\ pc \notin {"idle", "drain"} => \A e \in Eyes : ~dma_busy[e]
  /\ pc = "drain" => \A e \in Eyes : e < eIdx => ~dma_busy[e]

\* the texture loop is at its second iteration, between two yield() calls
C15_Witness ==
  /\ pc = "textures"
  /\ eIdx = 1
  /\ \A e \in Eyes : ~dma_busy[e]

(***************************************************************************)
(* A style selection and the warm start that follows it                    *)
(***************************************************************************)
\* the line is MOOD:next or MOOD:<name of a table entry>
Selects(text) ==
  \/ IsCommand(text, LitMood \o LitNext)
  \/ /\ strncasecmp(SkipBlanks(text), LitMood, 5) = 0
     /\ strcasecmp(MoodName(text), LitList) # 0
     /\ StyleMatches(MoodName(text)) # {}

\* the index the line selects, given the index that was current
Selected(text, current) ==
  IF IsCommand(text, LitMood \o LitNext)
  THEN (current + 1) % NUM_STYLES
  ELSE CHOOSE i \in 0 .. (NUM_STYLES - 1) :
         strcasecmp(MoodName(text), styleTable[i + 1].name) = 0

\* C16: after MOOD:<name> with the name of table entry i, or MOOD:next, the
\* device restarts with the chosen index and the enabled flag already in the
\* backup registers under the magic tag, and the getCycleConfigPath call of
\* the warm start returns the configuration path of that entry and leaves
\* the enabled flag as it was before the command.
C16_SelectionSurvivesRestart ==
  (lastCmd.called /\ Selects(lastCmd.text)) =>
    LET i == Selected(lastCmd.text, lastCmd.cycleIndex)
    IN /\ upc \in {"reset", "setup"}
       /\ BKUP[0] = Tagged(i)
       /\ BKUP[1] = Tagged(lastCmd.cycleEnabled)
       /\ upc = "setup" =>
            /\ configPath = styleTable[i + 1].configPath
            /\ cycleIndex = i
            /\ cycleEnabled = lastCmd.cycleEnabled

\* the warm start after Mood:Demon, sent while cycling was off, has asked for
\* its configuration path
C16_Witness ==
  /\ upc = "setup"
  /\ lastCmd.called
  /\ lastCmd.text = LineDemon
  /\ lastCmd.cycleEnabled = 0
  /\ lastCmd.cycleIndex # 3
  /\ configPath = "demon/config.eye"


\* C17: after a reload returns, every rendering parameter the configuration
\* file did not set has its fixed default, and the ones it set have the value
\* it wrote, whatever the parameters were before the reload: the parameters
\* are a function of the file alone.
C17_UnwrittenFieldsDefault ==
  Returned => params = WriteParams(DefaultParams, loaded.fields)

\* a reload that started with parameters away from their defaults returned,
\* its file having set only some of the fields
C17_Witness ==
  /\ Returned
  /\ loaded.stale
  /\ loaded.fields = SomeFields
  /\ params.eye[1].backColor = 65535
  /\ params.global.trackFactor = 50


\* C18: after a reload returns, each texture slot of each eye references
\* decoded pixel data, or that eye's own fallback color for that slot with
\* width 1 and height 1.
C18_DecodedOrOwnFallback ==
  Returned =>
    \A e \in Eyes : \A sl \in Slots :
      \/ /\ eye[e][sl].data.kind = "flash"
         /\ ~loaded.names[e][sl].null
      \/ /\ eye[e][sl].data = ColorPtr(e, sl)
         /\ eye[e][sl].width = 1
         /\ eye[e][sl].height = 1


\* the owners the configuration loader gave a string in this reload
LoaderOwners == NonNull(
  [e \in Eyes |-> [sl \in Slots |-> [filename |-> loaded.names[e][sl]]]],
  loaded.upper, loaded.lower)

LongProcessed == Processed /\ Len(lastCmd.text) >= SERIAL_BUF_SIZE - 2

\* C20 as stated: the buffer never holds more than 63 characters, and the
\* command processed for a line longer than 63 characters is its first 62
\* characters followed by the last character received.
C20_Original ==
  /\ Len(serialBuf) <= SERIAL_BUF_SIZE - 1
  /\ LongProcessed =>
       lastCmd.text = Take(LineLong, SERIAL_BUF_SIZE - 2)
                        \o <<LineLong[Len(LineLong)]>>

\* C20 (amended): the buffer never holds more than 63 characters, and the
\* command processed for a line longer than 63 characters is its first 63
\* characters: the excess characters are dropped.
C20_ExcessDropped ==
  /\ Len(serialBuf) <= SERIAL_BUF_SIZE - 1
  /\ LongProcessed => lastCmd.text = Take(LineLong, SERIAL_BUF_SIZE - 1)

\* the 66-character line was processed
C20_Witness ==
  /\ LongProcessed
  /\ Len(LineLong) > SERIAL_BUF_SIZE - 1
  /\ Len(lastCmd.text) = SERIAL_BUF_SIZE - 1

=============================================================================
